---------------------------- MODULE Spec2Model ----------------------------
(***************************************************************************)
(* Model of simplecv/tracking/track_class.py: the Track result holder and  *)
(* its variants CAMShiftTrack, LKTrack, SURFTrack and MFTrack.             *)
(*                                                                         *)
(* One behaviour is the life of one instance: a constructor call, then any *)
(* sequence of rendering calls on it.  The accessors are pure functions of *)
(* the instance and are operators.                                         *)
(*                                                                         *)
(* Units.  Bounding boxes, text positions and sizes are whole pixels.      *)
(* Points (center, x, y, pts, predict_pt, state_pt, the k-means center)    *)
(* may be fractional in the program; the model stores them in HALF pixels, *)
(* so the stored integer 7 stands for the coordinate 3.5.                  *)
(***************************************************************************)
EXTENDS Integers, Sequences, FiniteSets, TLC

-----------------------------------------------------------------------------
(* Bounds of the model *)

\* bounding-box origins x, y range over 0..MaxXY
MaxXY == 1
\* bounding-box extents w, h range over 1..MaxWH
MaxWH == 2
\* the longest list of match points / tracked points handed to a constructor
MaxPts == 2
\* the drawing layer takes at most MaxShapes shapes
MaxShapes == 3

-----------------------------------------------------------------------------
(* Program constants *)

\* showCoordinates &c.: size = 16
DefaultFontSize == 16
\* showCoordinates &c.: pos = (imgsize[0] - 120, ...)
TextMargin == 120
\* SURFTrack.__init__: bb = (min_x - 5, min_y - 5, max_x - min_x + 5, ...)
BoxPad == 5

-----------------------------------------------------------------------------
(* Python values.  A value that may be None is a tagged record, so that    *)
(* None, an int, a tuple, a list and an opaque object stay distinct.       *)

None == [t |-> "None"]
PyInt(n) == [t |-> "int", n |-> n]
PyTuple(s) == [t |-> "tuple", items |-> s]
PyList(s) == [t |-> "list", items |-> s]
Obj(name) == [t |-> "obj", id |-> name]

\* Python truthiness, as tested by "if not pos" / "if not size"
Truthy(v) ==
    CASE v.t = "None" -> FALSE
      [] v.t = "int" -> v.n # 0
      [] v.t \in {"tuple", "list"} -> Len(v.items) > 0
      [] OTHER -> TRUE

\* int(f) of a value held in half pixels: truncation toward zero
PyIntOf(half) == IF half >= 0 THEN half \div 2 ELSE -((-half) \div 2)

\* max(...) and min(...) over a non-empty set of numbers
PyMax(S) == CHOOSE m \in S : \A n \in S : n <= m
PyMin(S) == CHOOSE m \in S : \A n \in S : m <= n

\* all sequences over S of length at most n
SeqsUpTo(S, n) == UNION {[1..k -> S] : k \in 0..n}

\* an attribute read: the value, or AttributeError when it was never assigned
GetAttr(obj, a) ==
    IF a \in DOMAIN obj THEN [raised |-> "none", value |-> obj[a]]
    ELSE [raised |-> "AttributeError"]

Returned(v) == [raised |-> "none", value |-> v]

-----------------------------------------------------------------------------
(* Inputs *)

Color_GREEN == "GREEN"
Color_RED == "RED"

\* frames: an image with its size_tuple (width, height)
Frames == {[id |-> "frame800", size_tuple |-> <<800, 600>>],
           [id |-> "frame640", size_tuple |-> <<640, 480>>]}

BBs == {<<x, y, w, h>> : x \in 0..MaxXY, y \in 0..MaxXY,
                         w \in 1..MaxWH, h \in 1..MaxWH}

\* points in half pixels: coordinates 0.5 and 1.0
Points == {<<px, py>> : px \in {1, 2}, py \in {1, 2}}

\* values of time.time()
Times == {1000}

-----------------------------------------------------------------------------
(* State *)

VARIABLES
    trueDiv,  \* the interpreter's "/" on two ints: TRUE true division, FALSE floor
    pc,       \* "new" before the constructor call, "live" once it returned,
              \* "raised" when it raised
    cls,      \* the class being instantiated
    args,     \* the constructor's arguments, by parameter name
    self,     \* the instance's attributes: attribute name -> value
    branch,   \* the return point SURFTrack.__init__ left through
    km,       \* the cv2.kmeans calls made, and the last result
    dl,       \* the held frame's drawing layer: its font size, how many shapes
              \* it holds, and the shapes the most recent call drew (the
              \* program only ever adds to the layer; it never reads it back)
    call,     \* the most recent method call on the instance, with its arguments
    exc,      \* the exception the most recent call raised, or "none"
    assigned  \* the attributes the caller assigned on the instance after
              \* construction: attribute name -> value

vars == <<trueDiv, pc, cls, args, self, branch, km, dl, call, exc, assigned>>

\* an object with no attribute assigned yet, a call with no argument
Empty == [a \in {} |-> None]

NoCall == [op |-> "none"]

-----------------------------------------------------------------------------
(* Track: constructor and accessors *)

\* n / 2 for an int n, in half pixels
HalfOf(n) == IF trueDiv THEN n ELSE 2 * (n \div 2)

getCenter_from_bb(obj) ==
    <<2 * obj.bb[1] + HalfOf(obj.bb[3]), 2 * obj.bb[2] + HalfOf(obj.bb[4])>>

getCenter_swapped(obj) ==
    <<2 * obj.bb_x + HalfOf(obj.h), 2 * obj.bb_y + HalfOf(obj.w)>>

\* return self.bb_x + self.w / 2, self.bb_y + self.h / 2
getCenter(obj) ==
    <<2 * obj.bb_x + HalfOf(obj.w), 2 * obj.bb_y + HalfOf(obj.h)>>

area_square(obj) == obj.w * obj.w

\* return self.w * self.h
area(obj) == obj.w * obj.h

getImage(obj) == GetAttr(obj, "image")

getBB_unpacked(obj) ==
    IF {"bb_x", "bb_y", "w", "h"} \subseteq DOMAIN obj
    THEN Returned(<<obj.bb_x, obj.bb_y, obj.h, obj.w>>)
    ELSE [raised |-> "AttributeError"]

\* return self.bb
getBB(obj) == GetAttr(obj, "bb")

getPredictionPoints(obj) == GetAttr(obj, "predict_pt")

getCorrectedPoints(obj) == GetAttr(obj, "state_pt")

\* return func(self.image), func a function on frames
processTrack(obj, func) == func[obj.image]

\* Track.__init__(self, img, bb), the clock reading t
Track__init__(obj, img, bb, t) ==
    LET s1 == [bb |-> bb, image |-> img,
               bb_x |-> bb[1], bb_y |-> bb[2], w |-> bb[3], h |-> bb[4]] @@ obj
        c == getCenter(s1)
    IN  [x |-> c[1], y |-> c[2], center |-> c,
         sizeRatio |-> 1,
         vel |-> <<0, 0>>,
         rt_vel |-> <<0, 0>>,
         time |-> t,
         cv2numpy |-> s1.image,
         predict_pt |-> <<0, 0>>,
         state_pt |-> <<0, 0>>] @@ s1

\* what every constructor call leaves besides the instance
Constructed(c, a, obj, b, k) ==
    /\ pc' = "live"
    /\ cls' = c
    /\ args' = a
    /\ self' = obj
    /\ branch' = b
    /\ km' = k
    /\ exc' = "none"
    /\ UNCHANGED <<trueDiv, dl, call, assigned>>

ConstructorRaised_swallowed(c, a, e, b, k) ==
    Constructed(c, a,
                Track__init__(Empty, a.img, <<1, 1, 1, 1>>,
                              CHOOSE t \in Times : TRUE),
                b, k)

\* a constructor call that raised: the caller gets no instance
ConstructorRaised(c, a, e, b, k) ==
    /\ pc' = "raised"
    /\ cls' = c
    /\ args' = a
    /\ self' = Empty
    /\ branch' = b
    /\ km' = k
    /\ exc' = e
    /\ UNCHANGED <<trueDiv, dl, call, assigned>>

\* Track(img, bb)
NewTrack ==
    /\ pc = "new"
    /\ \E img \in Frames, bb \in BBs, t \in Times :
         Constructed("Track", [img |-> img, bb |-> bb],
                     Track__init__(Empty, img, bb, t), "", km)

-----------------------------------------------------------------------------
(* CAMShiftTrack *)

Ellipses == {Obj("ellipse")}

CAMShiftTrack__init__(obj, img, bb, ellipse, t) ==
    [ellipse |-> ellipse] @@ Track__init__(obj, img, bb, t)

getEllipse(obj) == GetAttr(obj, "ellipse")

\* CAMShiftTrack(img, bb, ellipse)
NewCAMShiftTrack ==
    /\ pc = "new"
    /\ \E img \in Frames, bb \in BBs, ellipse \in Ellipses, t \in Times :
         Constructed("CAMShiftTrack",
                     [img |-> img, bb |-> bb, ellipse |-> ellipse],
                     CAMShiftTrack__init__(Empty, img, bb, ellipse, t), "", km)

-----------------------------------------------------------------------------
(* LKTrack *)

\* the pts argument: None, or a list of points (possibly empty)
LKPts == {None} \cup {PyList(s) : s \in SeqsUpTo({<<1, 2>>}, MaxPts)}

LKTrack__init__(obj, img, bb, pts, t) ==
    [pts |-> pts] @@ Track__init__(obj, img, bb, t)

\* LKTrack(img, bb, pts)
NewLKTrack ==
    /\ pc = "new"
    /\ \E img \in Frames, bb \in BBs, pts \in LKPts, t \in Times :
         Constructed("LKTrack", [img |-> img, bb |-> bb, pts |-> pts],
                     LKTrack__init__(Empty, img, bb, pts, t), "", km)

-----------------------------------------------------------------------------
(* MFTrack *)

Shifts == {0, 3}

MFTrack__init__(obj, img, bb, shift, t) ==
    [shift |-> shift] @@ Track__init__(obj, img, bb, t)

getShift(obj) == GetAttr(obj, "shift")

\* MFTrack(img, bb, shift)
NewMFTrack ==
    /\ pc = "new"
    /\ \E img \in Frames, bb \in BBs, shift \in Shifts, t \in Times :
         Constructed("MFTrack", [img |-> img, bb |-> bb, shift |-> shift],
                     MFTrack__init__(Empty, img, bb, shift, t), "", km)

-----------------------------------------------------------------------------
(* SURFTrack *)

\* cv2.KeyPoint: only its pt attribute is read
KeyPoints == {[pt |-> p] : p \in Points}

\* the new_pts argument: a list of key points, or None
NewPts == {None} \cup {PyList(s) : s \in SeqsUpTo(KeyPoints, MaxPts)}

\* sd and td: a descriptor matrix, or None
Descriptors(name) == {None, Obj(name)}

NoKMeans == [calls |-> 0]

\* cv2.kmeans(samples, K=1, ...): raises, or returns one cluster center
\* somewhere among the samples (the initial centers are random)
kmeans(samples) ==
    {[raised |-> "cv2.error"]} \cup
    {[raised |-> "none", center |-> samples[i]] : i \in 1..Len(samples)}

\* np_pts[:, i]
Column(np_pts, i) == {np_pts[k][i] : k \in 1..Len(np_pts)}

SURFTrack_bb_unpadded(np_pts, center) ==
    LET max_x == PyIntOf(PyMax(Column(np_pts, 1)))
        min_x == PyIntOf(PyMin(Column(np_pts, 1)))
        max_y == PyIntOf(PyMax(Column(np_pts, 2)))
        min_y == PyIntOf(PyMin(Column(np_pts, 2)))
    IN  <<min_x, min_y, max_x - min_x + 1, max_y - min_y + 1>>

SURFTrack_bb_centered(np_pts, center) ==
    LET max_x == PyIntOf(PyMax(Column(np_pts, 1)))
        min_x == PyIntOf(PyMin(Column(np_pts, 1)))
        max_y == PyIntOf(PyMax(Column(np_pts, 2)))
        min_y == PyIntOf(PyMin(Column(np_pts, 2)))
    IN  <<PyIntOf(center[1]) - BoxPad, PyIntOf(center[2]) - BoxPad,
          max_x - min_x + BoxPad, max_y - min_y + BoxPad>>

\* max_x = int(max(np_pts[:, 0])) ...
\* bb = (min_x - 5, min_y - 5, max_x - min_x + 5, max_y - min_y + 5)
\* center is the k-means result, in scope but not read
SURFTrack_bb(np_pts, center) ==
    LET max_x == PyIntOf(PyMax(Column(np_pts, 1)))
        min_x == PyIntOf(PyMin(Column(np_pts, 1)))
        max_y == PyIntOf(PyMax(Column(np_pts, 2)))
        min_y == PyIntOf(PyMin(Column(np_pts, 2)))
    IN  <<min_x - BoxPad, min_y - BoxPad,
          max_x - min_x + BoxPad, max_y - min_y + BoxPad>>

\* the placeholder box of the degenerate branches
PlaceholderBB == <<1, 1, 1, 1>>

SURFTrack_payload_swapped(a, pts) ==
    [templateImg |-> a.templateImg, skp |-> a.tkp, sd |-> a.sd, tkp |-> a.skp,
     td |-> a.td, pts |-> pts, detector |-> a.descriptor,
     descriptor |-> a.detector]

\* self.templateImg = templateImg ... self.descriptor = descriptor
SURFTrack_payload(a, pts) ==
    [templateImg |-> a.templateImg, skp |-> a.skp, sd |-> a.sd, tkp |-> a.tkp,
     td |-> a.td, pts |-> pts, detector |-> a.detector,
     descriptor |-> a.descriptor]

SURFTrack_td_None_unchecked(a) == FALSE

\* if td is None:
SURFTrack_td_None(a) == a.td = None

\* if len(new_pts) < 1:
SURFTrack_no_pts(a) == Len(a.new_pts.items) < 1

\* if sd is None:
SURFTrack_sd_None(a) == a.sd = None

\* np_pts = np.asarray([kp.pt for kp in new_pts])
SURFTrack_np_pts(a) == [k \in 1..Len(a.new_pts.items) |-> a.new_pts.items[k].pt]

\* SURFTrack(img, new_pts, detector, descriptor, templateImg, skp, sd, tkp, td)
NewSURFTrack ==
    /\ pc = "new"
    /\ \E img \in Frames, new_pts \in NewPts,
          sd \in Descriptors("sd"), td \in Descriptors("td"), t \in Times :
         LET a == [img |-> img, new_pts |-> new_pts,
                   detector |-> Obj("detector"),
                   descriptor |-> Obj("descriptor"),
                   templateImg |-> Obj("templateImg"),
                   skp |-> Obj("skp"), sd |-> sd,
                   tkp |-> Obj("tkp"), td |-> td]
         IN  IF SURFTrack_td_None(a)
             THEN Constructed("SURFTrack", a,
                      Track__init__(Empty, img, PlaceholderBB, t),
                      "td is None", km)
             ELSE IF a.new_pts = None
             \* len(None) raises TypeError
             THEN ConstructorRaised("SURFTrack", a, "TypeError",
                                    "len(new_pts)", km)
             ELSE IF SURFTrack_no_pts(a)
             THEN Constructed("SURFTrack", a,
                      SURFTrack_payload(a, None)
                          @@ Track__init__(Empty, img, PlaceholderBB, t),
                      "len(new_pts) < 1", km)
             ELSE IF SURFTrack_sd_None(a)
             THEN Constructed("SURFTrack", a,
                      SURFTrack_payload(a, None)
                          @@ Track__init__(Empty, img, PlaceholderBB, t),
                      "sd is None", km)
             ELSE LET np_pts == SURFTrack_np_pts(a) IN
                  \E r \in kmeans(np_pts) :
                    LET k == [calls |-> km.calls + 1, result |-> r] IN
                    IF r.raised # "none"
                    THEN ConstructorRaised("SURFTrack", a, r.raised,
                                           "cv2.kmeans", k)
                    ELSE Constructed("SURFTrack", a,
                             SURFTrack_payload(a, PyList(np_pts))
                                 @@ Track__init__(Empty, img,
                                        SURFTrack_bb(np_pts, r.center), t),
                             "valid", k)

getTrackedPoints(obj) == GetAttr(obj, "pts")

getDetector(obj) == GetAttr(obj, "detector")

getDescriptor(obj) == GetAttr(obj, "descriptor")

getImageKeyPoints(obj) == GetAttr(obj, "skp")

getImageDescriptor(obj) == GetAttr(obj, "sd")

getTemplateKeyPoints(obj) == GetAttr(obj, "tkp")

getTemplateDescriptor(obj) == GetAttr(obj, "td")

getTemplateImage(obj) == GetAttr(obj, "templateImg")

-----------------------------------------------------------------------------
(* The drawing layer of the held frame, img.dl()                           *)

\* one more shape on the layer
Drawn(layer, shape) ==
    [layer EXCEPT !.count = @ + 1, !.last = Append(@, shape)]

\* the layer as a call finds it
Layer == [dl EXCEPT !.last = <<>>]

\* dl().circle(center, radius, color, width)
Circle(layer, center, rad, color, thickness) ==
    Drawn(layer, [kind |-> "circle", center |-> center, rad |-> rad,
                  color |-> color, thickness |-> thickness])

\* dl().rectangle(x, y, w, h, color, width)
Rectangle(layer, x, y, w, h, color, thickness) ==
    Drawn(layer, [kind |-> "rectangle", x |-> x, y |-> y, w |-> w, h |-> h,
                  color |-> color, thickness |-> thickness])

\* dl().set_font_size(size)
SetFontSize(layer, size) == [layer EXCEPT !.font = size]

\* dl().text(text, pos, color), drawn in the layer's current font size
Text(layer, text, pos, color) ==
    Drawn(layer, [kind |-> "text", text |-> text, pos |-> pos,
                  color |-> color, font |-> layer.font])

\* the layer has room for n more shapes
Room(n) == dl.count + n <= MaxShapes

-----------------------------------------------------------------------------
(* Arguments of the rendering calls *)

\* the keyword arguments of a call: a function from the names the caller
\* supplies; a name left out takes the default of the signature
Arg(kw, name, default) == IF name \in DOMAIN kw THEN kw[name] ELSE default

\* (color, rad, thickness) of draw, drawBB, drawPredicted, drawCorrected,
\* drawTrackerPoints: all defaulted, or all supplied
DrawArgs == {Empty, [color |-> Color_RED, rad |-> 2, thickness |-> 2]}

\* (pos, color, size) of the show* overlays
ShowArgs == {Empty,
             [color |-> Color_RED, size |-> PyInt(0)],
             [pos |-> PyTuple(<<0, 0>>), size |-> PyInt(20)]}

Rendered_caching(op, a, layer) ==
    /\ dl' = layer
    /\ call' = [op |-> op, args |-> a, ret |-> None]
    /\ exc' = "none"
    /\ self' = [self EXCEPT !.sizeRatio = layer.font]
    /\ UNCHANGED <<trueDiv, pc, cls, args, branch, km, assigned>>

\* what a rendering call that returned leaves: the method bodies hold no
\* return statement and no assignment to self
Rendered(op, a, layer) ==
    /\ dl' = layer
    /\ call' = [op |-> op, args |-> a, ret |-> None]
    /\ exc' = "none"
    /\ UNCHANGED <<trueDiv, pc, cls, args, self, branch, km, assigned>>

\* a call that raised before it drew anything
Raised(op, a, e) ==
    /\ call' = [op |-> op, args |-> a]
    /\ exc' = e
    /\ dl' = Layer
    /\ UNCHANGED <<trueDiv, pc, cls, args, self, branch, km, assigned>>

-----------------------------------------------------------------------------
(* Track: rendering *)

\* draw(color=Color.GREEN, rad=1, thickness=1)
draw ==
    /\ pc = "live"
    /\ Room(1)
    /\ \E kw \in DrawArgs :
         Rendered("draw", kw,
                  Circle(Layer, self.center, Arg(kw, "rad", 1),
                         Arg(kw, "color", Color_GREEN),
                         Arg(kw, "thickness", 1)))

\* drawBB(color=Color.GREEN, thickness=3)
drawBB ==
    /\ pc = "live"
    /\ Room(1)
    /\ \E kw \in {Empty, [color |-> Color_RED, thickness |-> 2]} :
         Rendered("drawBB", kw,
                  Rectangle(Layer, self.bb_x, self.bb_y, self.w, self.h,
                            Arg(kw, "color", Color_GREEN),
                            Arg(kw, "thickness", 3)))

TextPos_fixed(pos, img, y) ==
    IF ~Truthy(pos) THEN <<680, y>> ELSE pos.items

\* if not pos: imgsize = img.size_tuple; pos = (imgsize[0] - 120, y)
TextPos(pos, img, y) ==
    IF ~Truthy(pos) THEN <<img.size_tuple[1] - TextMargin, y>> ELSE pos.items

\* if not size: size = 16
TextSize(size) ==
    IF ~Truthy(size) THEN DefaultFontSize ELSE size.n

\* img.dl().set_font_size(size); img.dl().text(text, pos, color)
Overlay(layer, text, pos, color, size) ==
    Text(SetFontSize(layer, size), text, pos, color)

\* ... and a second line: img.dl().text(unit, (pos[0], pos[1] + size), color)
Overlay2(layer, text, unit, pos, color, size) ==
    Text(Overlay(layer, text, pos, color, size),
         [fmt |-> unit, vals |-> <<>>], <<pos[1], pos[2] + size>>, color)

\* showCoordinates(pos=None, color=Color.GREEN, size=None)
showCoordinates ==
    /\ pc = "live"
    /\ Room(1)
    /\ \E kw \in ShowArgs :
         Rendered("showCoordinates", kw,
             Overlay(Layer,
                 [fmt |-> "x = %d  y = %d",
                  vals |-> <<PyIntOf(self.x), PyIntOf(self.y)>>],
                 TextPos(Arg(kw, "pos", None), self.image, 10),
                 Arg(kw, "color", Color_GREEN),
                 TextSize(Arg(kw, "size", None))))

\* showSizeRatio(pos=None, color=Color.GREEN, size=None)
showSizeRatio ==
    /\ pc = "live"
    /\ Room(1)
    /\ \E kw \in ShowArgs :
         Rendered("showSizeRatio", kw,
             Overlay(Layer,
                 [fmt |-> "size = %f", vals |-> <<self.sizeRatio>>],
                 TextPos(Arg(kw, "pos", None), self.image, 30),
                 Arg(kw, "color", Color_GREEN),
                 TextSize(Arg(kw, "size", None))))

\* showPixelVelocity(pos=None, color=Color.GREEN, size=None)
showPixelVelocity ==
    /\ pc = "live"
    /\ Room(2)
    /\ \E kw \in ShowArgs :
         Rendered("showPixelVelocity", kw,
             Overlay2(Layer,
                 [fmt |-> "Vx = %.2f Vy = %.2f",
                  vals |-> <<self.vel[1], self.vel[2]>>],
                 "in pixels/frame",
                 TextPos(Arg(kw, "pos", None), self.image, 90),
                 Arg(kw, "color", Color_GREEN),
                 TextSize(Arg(kw, "size", None))))

\* showPixelVelocityRT(pos=None, color=Color.GREEN, size=None)
showPixelVelocityRT ==
    /\ pc = "live"
    /\ Room(2)
    /\ \E kw \in ShowArgs :
         Rendered("showPixelVelocityRT", kw,
             Overlay2(Layer,
                 [fmt |-> "Vx = %.2f Vy = %.2f",
                  vals |-> <<self.rt_vel[1], self.rt_vel[2]>>],
                 "in pixels/second",
                 TextPos(Arg(kw, "pos", None), self.image, 50),
                 Arg(kw, "color", Color_GREEN),
                 TextSize(Arg(kw, "size", None))))

\* drawPredicted(color=Color.GREEN, rad=1, thickness=1)
drawPredicted ==
    /\ pc = "live"
    /\ Room(1)
    /\ \E kw \in DrawArgs :
         Rendered("drawPredicted", kw,
                  Circle(Layer, self.predict_pt, Arg(kw, "rad", 1),
                         Arg(kw, "color", Color_GREEN),
                         Arg(kw, "thickness", 1)))

\* if not pos: imgsize = img.size_tuple; pos = (5, y)
FixedTextPos(pos, y) == IF ~Truthy(pos) THEN <<5, y>> ELSE pos.items

\* showPredictedCoordinates(pos=None, color=Color.GREEN, size=None)
showPredictedCoordinates ==
    /\ pc = "live"
    /\ Room(1)
    /\ \E kw \in ShowArgs :
         Rendered("showPredictedCoordinates", kw,
             Overlay(Layer,
                 [fmt |-> "Predicted: x = %d  y = %d",
                  vals |-> <<PyIntOf(self.predict_pt[1]),
                             PyIntOf(self.predict_pt[2])>>],
                 FixedTextPos(Arg(kw, "pos", None), 10),
                 Arg(kw, "color", Color_GREEN),
                 TextSize(Arg(kw, "size", None))))

\* showCorrectedCoordinates(pos=None, color=Color.GREEN, size=None)
showCorrectedCoordinates ==
    /\ pc = "live"
    /\ Room(1)
    /\ \E kw \in ShowArgs :
         Rendered("showCorrectedCoordinates", kw,
             Overlay(Layer,
                 [fmt |-> "Corrected: x = %d  y = %d",
                  vals |-> <<PyIntOf(self.state_pt[1]),
                             PyIntOf(self.state_pt[2])>>],
                 FixedTextPos(Arg(kw, "pos", None), 40),
                 Arg(kw, "color", Color_GREEN),
                 TextSize(Arg(kw, "size", None))))

\* drawCorrected(color=Color.GREEN, rad=1, thickness=1)
drawCorrected ==
    /\ pc = "live"
    /\ Room(1)
    /\ \E kw \in DrawArgs :
         Rendered("drawCorrected", kw,
                  Circle(Layer, self.state_pt, Arg(kw, "rad", 1),
                         Arg(kw, "color", Color_GREEN),
                         Arg(kw, "thickness", 1)))

-----------------------------------------------------------------------------
(* LKTrack, SURFTrack: drawTrackerPoints;  MFTrack: showShift *)

\* for pt in self.pts: self.image.dl().circle(center=pt, radius=radius,
\*                                            width=thickness, color=color)
RECURSIVE DrawPoints(_, _, _, _, _)
DrawPoints(layer, pts, color, radius, thickness) ==
    IF pts = <<>> THEN layer
    ELSE DrawPoints(Circle(layer, Head(pts), radius, color, thickness),
                    Tail(pts), color, radius, thickness)

\* if self.pts is not None: the points the loop visits
PointsToDraw(obj) == IF obj.pts # None THEN obj.pts.items ELSE <<>>

\* the body shared, word for word, by LKTrack.drawTrackerPoints and
\* SURFTrack.drawTrackerPoints; reading self.pts raises when it was never set
drawTrackerPoints(op, kw) ==
    IF "pts" \notin DOMAIN self
    THEN Raised(op, kw, "AttributeError")
    ELSE /\ Room(Len(PointsToDraw(self)))
         /\ Rendered(op, kw,
                DrawPoints(Layer, PointsToDraw(self),
                           Arg(kw, "color", Color_GREEN),
                           Arg(kw, "radius", 1),
                           Arg(kw, "thickness", 1)))

TrackerPointsArgs == {Empty, [color |-> Color_RED, radius |-> 2, thickness |-> 2]}

\* LKTrack.drawTrackerPoints(color=Color.GREEN, radius=1, thickness=1)
LKTrack_drawTrackerPoints ==
    /\ pc = "live"
    /\ cls = "LKTrack"
    /\ \E kw \in TrackerPointsArgs :
         drawTrackerPoints("LKTrack.drawTrackerPoints", kw)

\* SURFTrack.drawTrackerPoints(color=Color.GREEN, radius=1, thickness=1)
SURFTrack_drawTrackerPoints ==
    /\ pc = "live"
    /\ cls = "SURFTrack"
    /\ \E kw \in TrackerPointsArgs :
         drawTrackerPoints("SURFTrack.drawTrackerPoints", kw)

\* MFTrack.showShift(pos=None, color=Color.GREEN, size=None)
showShift ==
    /\ pc = "live"
    /\ cls = "MFTrack"
    /\ Room(2)
    /\ \E kw \in ShowArgs :
         Rendered("showShift", kw,
             Overlay2(Layer,
                 [fmt |-> "Shift = %.2f", vals |-> <<self.shift>>],
                 "in pixels/second",
                 TextPos(Arg(kw, "pos", None), self.image, 50),
                 Arg(kw, "color", Color_GREEN),
                 TextSize(Arg(kw, "size", None))))

-----------------------------------------------------------------------------
(* Specification *)

\* no instance yet; the frame's drawing layer is empty, in its own font size
Init ==
    /\ trueDiv \in BOOLEAN
    /\ pc = "new"
    /\ cls = ""
    /\ args = Empty
    /\ self = Empty
    /\ branch = ""
    /\ km = NoKMeans
    /\ dl = [font |-> 18, count |-> 0, last |-> <<>>]
    /\ call = NoCall
    /\ exc = "none"
    /\ assigned = Empty

Next ==
    \/ NewTrack
    \/ NewCAMShiftTrack
    \/ NewLKTrack
    \/ NewSURFTrack
    \/ NewMFTrack
    \/ draw
    \/ drawBB
    \/ showCoordinates
    \/ showSizeRatio
    \/ showPixelVelocity
    \/ showPixelVelocityRT
    \/ drawPredicted
    \/ showPredictedCoordinates
    \/ showCorrectedCoordinates
    \/ drawCorrected
    \/ LKTrack_drawTrackerPoints
    \/ SURFTrack_drawTrackerPoints
    \/ showShift

Spec == Init /\ [][Next]_vars

-----------------------------------------------------------------------------
(* The caller's assignments to the instance's public attributes: the       *)
(* tracker that built the track fills in vel, rt_vel, predict_pt and       *)
(* state_pt, and nothing keeps it from assigning bb.                       *)

\* track.<name> = v
Assign(name, v) ==
    /\ pc = "live"
    /\ self' = (name :> v) @@ self
    /\ assigned' = (name :> v) @@ assigned
    /\ UNCHANGED <<trueDiv, pc, cls, args, branch, km, dl, call, exc>>

\* boxes a caller may assign: one no constructor call here produces, and the
\* placeholder
AssignedBBs == {<<3, 4, 7, 9>>, <<1, 1, 1, 1>>}

\* a velocity, and a point in half pixels
AssignedVels == {<<3, -1>>}
AssignedPoints == {<<5, 8>>}

\* track.bb = v
Assign_bb == \E v \in AssignedBBs : Assign("bb", v)

\* track.vel = v
Assign_vel == \E v \in AssignedVels : Assign("vel", v)

\* track.rt_vel = v
Assign_rt_vel == \E v \in AssignedVels : Assign("rt_vel", v)

\* track.predict_pt = v
Assign_predict_pt == \E v \in AssignedPoints : Assign("predict_pt", v)

\* track.state_pt = v
Assign_state_pt == \E v \in AssignedPoints : Assign("state_pt", v)

\* the constructors and the caller's assignments
NextCaller ==
    \/ NewTrack
    \/ NewCAMShiftTrack
    \/ NewLKTrack
    \/ NewSURFTrack
    \/ NewMFTrack
    \/ Assign_bb
    \/ Assign_vel
    \/ Assign_rt_vel
    \/ Assign_predict_pt
    \/ Assign_state_pt

SpecCaller == Init /\ [][NextCaller]_vars

-----------------------------------------------------------------------------
(* Properties *)

\* the classes whose constructor is handed the bounding box
BBClasses == {"Track", "CAMShiftTrack", "LKTrack", "MFTrack"}

\* C1: a track constructed from the box (x, y, w, h) has
\* center = (x + w/2, y + h/2), "/" being the interpreter's division, and
\* getCenter() returns that same pair.
C1_CenterOfBox ==
    (pc = "live" /\ cls \in BBClasses) =>
        LET x == args.bb[1]
            y == args.bb[2]
            w == args.bb[3]
            h == args.bb[4]
        IN  /\ self.center = <<2 * x + HalfOf(w), 2 * y + HalfOf(h)>>
            /\ getCenter(self) = self.center

\* the box (1, 0, 1, 2) under true division: center (1.5, 1.0)
C1_Witness ==
    /\ pc = "live"
    /\ cls = "Track"
    /\ trueDiv
    /\ args.bb = <<1, 0, 1, 2>>
    /\ self.center = <<3, 2>>
    /\ getCenter(self) = <<3, 2>>

\* C2: the area of a track constructed from the box (x, y, w, h) is w * h,
\* whatever x and y are.
C2_AreaOfBox ==
    (pc = "live" /\ cls \in BBClasses) =>
        area(self) = args.bb[3] * args.bb[4]

C2_Witness ==
    /\ pc = "live"
    /\ cls = "CAMShiftTrack"
    /\ args.bb = <<0, 1, 1, 2>>
    /\ area(self) = 2

\* C3: getBB() returns exactly the bounding box passed to the constructor,
\* in every state the track reaches through rendering calls.
C3_GetBBReturnsInput ==
    (pc = "live" /\ cls \in BBClasses) => getBB(self) = Returned(args.bb)

\* after three shapes were drawn
C3_Witness ==
    /\ pc = "live"
    /\ cls = "MFTrack"
    /\ dl.count = MaxShapes
    /\ call.op = "showShift"
    /\ args.bb = <<1, 1, 2, 1>>
    /\ getBB(self) = Returned(<<1, 1, 2, 1>>)

\* C4: a SURFTrack constructor call with td None returns an instance whose
\* box is exactly (1, 1, 1, 1) whatever the other arguments are, through the
\* first return: len(new_pts), sd and cv2.kmeans are never reached.
C4_TdNoneFirst ==
    (cls = "SURFTrack" /\ args.td = None) =>
        /\ pc = "live"
        /\ branch = "td is None"
        /\ self.bb = <<1, 1, 1, 1>>
        /\ getBB(self) = Returned(<<1, 1, 1, 1>>)
        /\ km.calls = 0

\* td None together with new_pts None
C4_Witness ==
    /\ pc = "live"
    /\ cls = "SURFTrack"
    /\ args.td = None
    /\ args.new_pts = None
    /\ args.sd = None
    /\ self.bb = <<1, 1, 1, 1>>

\* the degenerate calls with td present: new_pts a list, and it is empty or
\* sd is None
C5_Case ==
    /\ cls = "SURFTrack"
    /\ args.td # None
    /\ args.new_pts # None
    /\ (Len(args.new_pts.items) < 1 \/ args.sd = None)

\* C5: a SURFTrack constructor call with td present and len(new_pts) < 1 or
\* sd None returns an instance with box (1, 1, 1, 1), point set None, and
\* detector, descriptor, templateImg, skp, sd, tkp, td equal to the arguments.
C5_DegenerateKeepsPayload ==
    C5_Case =>
        /\ pc = "live"
        /\ self.bb = <<1, 1, 1, 1>>
        /\ self.pts = None
        /\ getTrackedPoints(self) = Returned(None)
        /\ self.detector = args.detector
        /\ self.descriptor = args.descriptor
        /\ self.templateImg = args.templateImg
        /\ self.skp = args.skp
        /\ self.sd = args.sd
        /\ self.tkp = args.tkp
        /\ self.td = args.td

\* match points present, sd None
C5_Witness ==
    /\ C5_Case
    /\ pc = "live"
    /\ Len(args.new_pts.items) = 2
    /\ args.sd = None
    /\ self.bb = <<1, 1, 1, 1>>
    /\ self.pts = None
    /\ self.skp = Obj("skp")

\* the calls that pass the three degenerate tests
C6_Case ==
    /\ cls = "SURFTrack"
    /\ args.td # None
    /\ args.sd # None
    /\ args.new_pts # None
    /\ Len(args.new_pts.items) >= 1

\* n is the least (greatest) of the match points' i-th coordinates, as an int
C6_IsMin(n, i) ==
    /\ \E k \in DOMAIN args.new_pts.items :
         PyIntOf(args.new_pts.items[k].pt[i]) = n
    /\ \A k \in DOMAIN args.new_pts.items :
         PyIntOf(args.new_pts.items[k].pt[i]) >= n

C6_IsMax(n, i) ==
    /\ \E k \in DOMAIN args.new_pts.items :
         PyIntOf(args.new_pts.items[k].pt[i]) = n
    /\ \A k \in DOMAIN args.new_pts.items :
         PyIntOf(args.new_pts.items[k].pt[i]) <= n

NoTrackedPoints ==
    \/ "pts" \notin DOMAIN self
    \/ self.pts = None
    \/ self.pts.items = <<>>

\* the three degenerate returns of SURFTrack.__init__
DegenerateBranches == {"td is None", "len(new_pts) < 1", "sd is None"}

\* C7: drawTrackerPoints on an LKTrack or SURFTrack whose point collection is
\* empty or None, every SURFTrack of a degenerate branch included, draws
\* nothing and does not raise.
C7_NoPointsNoDrawing ==
    (/\ pc = "live"
     /\ call.op \in {"LKTrack.drawTrackerPoints", "SURFTrack.drawTrackerPoints"}
     /\ (NoTrackedPoints \/ branch \in DegenerateBranches)) =>
        /\ exc = "none"
        /\ dl.last = <<>>

\* C8: in each of the three degenerate SURFTrack cases the seven payload
\* accessors return the corresponding constructor argument without raising.
C8_DegenerateAccessors ==
    (pc = "live" /\ cls = "SURFTrack" /\ branch \in DegenerateBranches) =>
        /\ getDetector(self) = Returned(args.detector)
        /\ getDescriptor(self) = Returned(args.descriptor)
        /\ getTemplateImage(self) = Returned(args.templateImg)
        /\ getImageKeyPoints(self) = Returned(args.skp)
        /\ getImageDescriptor(self) = Returned(args.sd)
        /\ getTemplateKeyPoints(self) = Returned(args.tkp)
        /\ getTemplateDescriptor(self) = Returned(args.td)

\* the text overlays of C9, each with the y of its default position
C9_DefaultY ==
    [showCoordinates |-> 10, showSizeRatio |-> 30, showPixelVelocityRT |-> 50,
     showPixelVelocity |-> 90, showShift |-> 50]

C9_Case == pc = "live" /\ exc = "none" /\ call.op \in DOMAIN C9_DefaultY

\* the text the call placed
C9_Text == dl.last[1]

\* called with no pos, no size and no color: text at (W - 120, y), font
\* size 16, color green
C9_Defaults ==
    (C9_Case /\ call.args = Empty) =>
        /\ C9_Text.kind = "text"
        /\ C9_Text.pos = <<self.image.size_tuple[1] - 120, C9_DefaultY[call.op]>>
        /\ C9_Text.font = 16
        /\ C9_Text.color = Color_GREEN

\* C9 as claimed: the defaults, and a supplied pos or size is used unchanged.
C9_SuppliedUnchanged ==
    /\ C9_Defaults
    /\ (C9_Case /\ "pos" \in DOMAIN call.args) =>
           C9_Text.pos = call.args.pos.items
    /\ (C9_Case /\ "size" \in DOMAIN call.args) =>
           C9_Text.font = call.args.size.n

\* C9, amended: the defaults; a supplied pos is used unchanged, and a supplied
\* size is used unchanged unless it is 0, which gives font size 16.
C9_SuppliedUnlessFalsy ==
    /\ C9_Defaults
    /\ (C9_Case /\ "pos" \in DOMAIN call.args) =>
           C9_Text.pos = call.args.pos.items
    /\ (C9_Case /\ "size" \in DOMAIN call.args) =>
           C9_Text.font = IF call.args.size.n = 0 THEN 16
                          ELSE call.args.size.n

\* showCoordinates() on a frame 800 wide: text at (680, 10)
C9_Witness ==
    /\ C9_Case
    /\ call.op = "showCoordinates"
    /\ call.args = Empty
    /\ self.image.size_tuple = <<800, 600>>
    /\ C9_Text.pos = <<680, 10>>
    /\ C9_Text.font = 16

\* C10: a rendering call changes the drawing layer only and returns nothing:
\* every step taken on a constructed track leaves the instance (bb, center,
\* area, sizeRatio, vel, rt_vel, predict_pt, state_pt, pts, image) as it was.
C10_RenderingLeavesTrack ==
    [][pc = "live" =>
        /\ self' = self
        /\ area(self') = area(self)
        /\ getImage(self') = getImage(self)
        /\ pc' = "live"
        /\ (exc' = "none" => call'.ret = None)]_vars

\* a track that took three rendering calls
C10_Witness ==
    /\ pc = "live"
    /\ cls = "LKTrack"
    /\ call.op = "drawCorrected"
    /\ dl.count = MaxShapes
    /\ self.state_pt = <<0, 0>>
    /\ self.pts = PyList(<<<<1, 2>>>>)

\* C11: a constructed SURFTrack has the placeholder box (1, 1, 1, 1) if and
\* only if the constructor left through a degenerate return; the valid branch
\* never yields (1, 1, 1, 1) and never a None (or unset) point set.
C11_PlaceholderIffDegenerate ==
    (pc = "live" /\ cls = "SURFTrack") =>
        /\ branch \in DegenerateBranches \cup {"valid"}
        /\ (getBB(self) = Returned(<<1, 1, 1, 1>>)) <=>
               (branch \in DegenerateBranches)
        /\ (branch \in DegenerateBranches) <=>
               (\/ args.td = None
                \/ Len(args.new_pts.items) < 1
                \/ args.sd = None)
        /\ branch = "valid" =>
               /\ self.bb # <<1, 1, 1, 1>>
               /\ getTrackedPoints(self).raised = "none"
               /\ getTrackedPoints(self).value # None

\* the single match point (1.0, 1.0): box (-4, -4, 5, 5), one tracked point
C11_Witness ==
    /\ pc = "live"
    /\ cls = "SURFTrack"
    /\ branch = "valid"
    /\ args.new_pts.items = <<[pt |-> <<2, 2>>]>>
    /\ self.bb = <<-4, -4, 5, 5>>
    /\ self.pts = PyList(<<<<2, 2>>>>)

\* C13: cv2.kmeans is called on the valid branch only; when it raises, the
\* constructor call raises the same exception and leaves no instance (no
\* bounding box, no payload); a degenerate construction makes no clustering
\* call and does not raise.
C13_KMeansOnValidBranchOnly ==
    (cls = "SURFTrack") =>
        /\ km.calls > 0 <=> branch \in {"valid", "cv2.kmeans"}
        /\ km.calls <= 1
        /\ (km.calls > 0 /\ km.result.raised # "none") =>
               /\ pc = "raised"
               /\ exc = km.result.raised
               /\ branch = "cv2.kmeans"
               /\ self = Empty
               /\ getBB(self).raised = "AttributeError"
               /\ getDetector(self).raised = "AttributeError"
        /\ (km.calls > 0 /\ km.result.raised = "none") =>
               (pc = "live" /\ branch = "valid")
        /\ (\/ args.td = None
            \/ (args.new_pts # None /\ Len(args.new_pts.items) < 1)
            \/ (args.new_pts # None /\ args.sd = None)) =>
               /\ km.calls = 0
               /\ pc = "live"
               /\ branch \in DegenerateBranches

\* the clustering call failed on two match points
C13_Witness ==
    /\ cls = "SURFTrack"
    /\ pc = "raised"
    /\ km.calls = 1
    /\ km.result.raised = "cv2.error"
    /\ Len(args.new_pts.items) = 2
    /\ exc = "cv2.error"
    /\ self = Empty

\* C14: the box (x, y, w, h) of a SURFTrack built through the valid branch
\* has w >= 5 and h >= 5 and encloses every match point (px, py):
\* x <= px <= x + w and y <= py <= y + h.  The points are in half pixels,
\* so the box edges are doubled.
C14_BoxEnclosesPoints ==
    (pc = "live" /\ cls = "SURFTrack" /\ branch = "valid") =>
        LET x == self.bb[1]
            y == self.bb[2]
            w == self.bb[3]
            h == self.bb[4]
        IN  /\ w >= 5
            /\ h >= 5
            /\ \A k \in DOMAIN args.new_pts.items :
                 LET px == args.new_pts.items[k].pt[1]
                     py == args.new_pts.items[k].pt[2]
                 IN  /\ 2 * x <= px
                     /\ px <= 2 * (x + w)
                     /\ 2 * y <= py
                     /\ py <= 2 * (y + h)

\* the bounding box Track.__init__ was given when the instance was built
C12_ConstructionBB ==
    IF cls \in BBClasses THEN args.bb
    ELSE IF branch \in DegenerateBranches THEN <<1, 1, 1, 1>>
    ELSE SURFTrack_bb(SURFTrack_np_pts(args), km.result.center)

\* C12: whatever the caller assigns to bb, vel, rt_vel, predict_pt and
\* state_pt after construction, center, getCenter() and area keep the values
\* derived from the construction box, and getBB() returns the assigned bb.
C12_CenterNotKeptInSync ==
    (pc = "live") =>
        LET x == C12_ConstructionBB[1]
            y == C12_ConstructionBB[2]
            w == C12_ConstructionBB[3]
            h == C12_ConstructionBB[4]
        IN  /\ self.center = <<2 * x + HalfOf(w), 2 * y + HalfOf(h)>>
            /\ getCenter(self) = <<2 * x + HalfOf(w), 2 * y + HalfOf(h)>>
            /\ area(self) = w * h
            /\ getBB(self) = Returned(IF "bb" \in DOMAIN assigned
                                      THEN assigned.bb
                                      ELSE C12_ConstructionBB)

\* a track built from (0, 1, 2, 1), then bb, vel and predict_pt assigned
C12_Witness ==
    /\ pc = "live"
    /\ cls = "Track"
    /\ args.bb = <<0, 1, 2, 1>>
    /\ DOMAIN assigned = {"bb", "vel", "predict_pt"}
    /\ getBB(self) = Returned(<<3, 4, 7, 9>>)
    /\ self.vel = <<3, -1>>
    /\ getCenter(self) = <<2, IF trueDiv THEN 3 ELSE 2>>
    /\ area(self) = 2

=============================================================================
